---- MODULE Spec2Model ----
(***************************************************************************)
(* GuildDB (data.py): one JSON file per guild, one asyncio.Lock per guild. *)
(* Tasks are coroutines of one event loop.  A coroutine is split at its    *)
(* await points: `async with self._lock(g)` awaits Lock.acquire, after     *)
(* which the block (file I/O, back-fill) runs and the lock is released on  *)
(* exit.  get and set are compositions of load and save, as in the source. *)
(***************************************************************************)
EXTENDS Integers, Sequences, FiniteSets, TLC

(***************************************************************************)
(* Python / JSON values, tagged by type.                                   *)
(***************************************************************************)
Null == [t |-> "null"]
JInt(n) == [t |-> "int", v |-> n]
JBool(b) == [t |-> "bool", v |-> b]
JStr(s) == [t |-> "str", v |-> s]
JList(s) == [t |-> "list", v |-> s]
\* a dict whose keys are str
JDict(f) == [t |-> "dict", v |-> f]
\* a dict whose keys are int (legal in Python, not representable in JSON)
IDict(f) == [t |-> "idict", v |-> f]
EmptyDict == JDict([k \in {} |-> Null])

\* isinstance(obj, dict)
IsDict(x) == x.t \in {"dict", "idict"}
\* key in obj, for a str key
HasKey(x, k) == x.t = "dict" /\ k \in DOMAIN x.v
\* obj[key] = val on a str-keyed dict
PutKey(x, k, val) ==
    JDict([j \in DOMAIN x.v \cup {k} |-> IF j = k THEN val ELSE x.v[j]])

\* doc[k][f] = v
put_nested(doc, k, f, v) == PutKey(doc, k, PutKey(doc.v[k], f, v))

\* the path of a guild that has no file: os.path.exists(path) is False
NoFile == [t |-> "nofile"]
\* a file that open(path, "w") truncated and json.dump did not finish
Partial == [t |-> "partial"]

(***************************************************************************)
(* _default_guild(): the canonical schema of a fresh guild.                *)
(***************************************************************************)
DefaultKeys == <<"warnings", "welcome", "auto_role", "muted_role", "image_muted", "logs">>

DefaultKeySet == {DefaultKeys[i] : i \in DOMAIN DefaultKeys}

WelcomeMessage == JStr("Welcome {user} to **{server}**! You are member #{count}.")

default_guild ==
    JDict([k \in DefaultKeySet |->
        CASE k = "warnings" -> EmptyDict
          [] k = "welcome" -> JDict([f \in {"channel_id", "message", "embed"} |->
                 CASE f = "channel_id" -> Null
                   [] f = "message" -> WelcomeMessage
                   [] f = "embed" -> JBool(FALSE)])
          [] k = "auto_role" -> JDict([f \in {"member", "bot"} |-> Null])
          [] k = "muted_role" -> Null
          [] k = "image_muted" -> EmptyDict
          [] k = "logs" -> JDict([f \in {"mod", "message", "member", "server", "voice"} |-> Null])])

(***************************************************************************)
(* json.dump / json.load.  dump turns int keys into their decimal strings  *)
(* and keeps every other value; load parses the text back to str-keyed     *)
(* dicts, lists and scalars.  The file content is kept as the parsed tree. *)
(***************************************************************************)
RECURSIVE json_dump(_)
json_dump(x) ==
    CASE x.t = "dict" -> JDict([k \in DOMAIN x.v |-> json_dump(x.v[k])])
      [] x.t = "idict" ->
            JDict([k \in {ToString(n) : n \in DOMAIN x.v} |->
                      json_dump(x.v[CHOOSE n \in DOMAIN x.v : ToString(n) = k])])
      [] x.t = "list" -> JList([i \in DOMAIN x.v |-> json_dump(x.v[i])])
      [] OTHER -> x

json_load(text) == text

(***************************************************************************)
(* load, lines 86-100: read the file (or {}), then the shallow merge loop  *)
(* `for key, default_val in defaults.items(): if key not in stored: ...`.  *)
(***************************************************************************)
\* the loop stops one key short
RECURSIVE merge_defaults_short(_, _, _)
merge_defaults_short(stored, defaults, i) ==
    IF i >= Len(DefaultKeys) THEN stored
    ELSE LET key == DefaultKeys[i]
         IN merge_defaults_short(IF HasKey(stored, key) THEN stored
                                 ELSE PutKey(stored, key, defaults.v[key]),
                                 defaults, i + 1)

RECURSIVE merge_defaults(_, _, _)
merge_defaults(stored, defaults, i) ==
    IF i > Len(DefaultKeys) THEN stored
    ELSE LET key == DefaultKeys[i]
         IN merge_defaults(IF HasKey(stored, key) THEN stored
                           ELSE PutKey(stored, key, defaults.v[key]),
                           defaults, i + 1)

\* the file is never read: stored is always {}
load_file_unread(file) == merge_defaults(EmptyDict, default_guild, 1)

\* the merge descends into nested dicts and adds their missing default fields
load_file_deep(file) ==
    LET stored == IF file # NoFile THEN json_load(file) ELSE EmptyDict
        dflt == default_guild
    IN JDict([k \in DOMAIN stored.v \cup DefaultKeySet |->
          IF k \notin DOMAIN stored.v THEN dflt.v[k]
          ELSE IF k \in DefaultKeySet /\ stored.v[k].t = "dict" /\ dflt.v[k].t = "dict"
          THEN JDict([f \in DOMAIN stored.v[k].v \cup DOMAIN dflt.v[k].v |->
                    IF f \in DOMAIN stored.v[k].v THEN stored.v[k].v[f] ELSE dflt.v[k].v[f]])
          ELSE stored.v[k]])

load_file(file) ==
    LET stored == IF file # NoFile THEN json_load(file) ELSE EmptyDict
    IN merge_defaults(stored, default_guild, 1)

(***************************************************************************)
(* get, lines 116-121: walk the key path, returning default on a miss.     *)
(***************************************************************************)
\* a miss returns None instead of the default passed by the caller
RECURSIVE get_walk_none(_, _, _)
get_walk_none(obj, keys, default) ==
    IF keys = <<>> THEN obj
    ELSE IF ~IsDict(obj) \/ ~HasKey(obj, Head(keys)) THEN Null
    ELSE get_walk_none(obj.v[Head(keys)], Tail(keys), default)

RECURSIVE get_walk(_, _, _)
get_walk(obj, keys, default) ==
    IF keys = <<>> THEN obj
    ELSE IF ~IsDict(obj) \/ ~HasKey(obj, Head(keys)) THEN default
    ELSE get_walk(obj.v[Head(keys)], Tail(keys), default)

(***************************************************************************)
(* set, lines 129-132: setdefault along keys[:-1], then assign keys[-1].   *)
(* The result is either the mutated document or the exception raised.      *)
(***************************************************************************)
Ok(x) == [ok |-> TRUE, val |-> x]
Raise(e) == [ok |-> FALSE, err |-> e]

\* `obj[key] = {}` in place of setdefault: the nested dict is replaced
RECURSIVE set_walk_fresh(_, _, _)
set_walk_fresh(obj, keys, value) ==
    IF keys = <<>> THEN Raise("IndexError")
    ELSE IF Len(keys) = 1
         THEN IF obj.t = "dict" THEN Ok(PutKey(obj, Head(keys), value))
              ELSE Raise("TypeError")
    ELSE IF obj.t # "dict" THEN Raise("AttributeError")
    ELSE LET key == Head(keys)
             r == set_walk_fresh(EmptyDict, Tail(keys), value)
         IN IF r.ok THEN Ok(PutKey(obj, key, r.val)) ELSE r

RECURSIVE set_walk(_, _, _)
set_walk(obj, keys, value) ==
    IF keys = <<>> THEN Raise("IndexError")
    ELSE IF Len(keys) = 1
         THEN IF obj.t = "dict" THEN Ok(PutKey(obj, Head(keys), value))
              ELSE Raise("TypeError")
    ELSE IF obj.t # "dict" THEN Raise("AttributeError")
    ELSE LET key == Head(keys)
             child == IF HasKey(obj, key) THEN obj.v[key] ELSE EmptyDict
             r == set_walk(child, Tail(keys), value)
         IN IF r.ok THEN Ok(PutKey(obj, key, r.val)) ELSE r

(***************************************************************************)
(* Inputs and bounds.                                                      *)
(***************************************************************************)
Guilds == {42, 7}
Tasks == {"A", "B"}
\* number of store calls started in one behaviour
MaxOps == 2

Spam == JList(<<JStr("spam")>>)

\* a record written before "warnings", "image_muted", "logs", ... existed,
\* whose "welcome" lacks the nested "message" and "embed" fields
OldRecord ==
    JDict([k \in {"welcome", "muted_role"} |->
        IF k = "welcome" THEN JDict([f \in {"channel_id"} |-> JInt(5)])
        ELSE JInt(8)])

\* a document that has every default top-level key
FullDoc == PutKey(default_guild, "warnings", JDict([u \in {"99"} |-> Spam]))
\* a document keyed by int(member.id) instead of str(member.id)
IntKeyDoc == PutKey(default_guild, "warnings", IDict([u \in {99} |-> Spam]))

\* what the guild files may hold when the bot starts: nothing, or the record
\* an earlier run of the bot wrote with save(g, OldRecord)
InitRecords == {NoFile, OldRecord}
\* the documents passed to save
SaveDocs == {FullDoc, OldRecord, IntKeyDoc}
\* the (keys, value) pairs passed to set
SetInputs ==
    { <<<<"a">>, JInt(1)>>, <<<<"a">>, JInt(2)>>,
      <<<<"auto_role", "member">>, JInt(555)>>,
      <<<<"warnings", "99">>, Spam>>,
      <<<<"muted_role", "x">>, JInt(1)>>,
      <<<<"reaction_roles", "1">>, JDict([e \in {"x"} |-> JInt(3)])>> }
\* the users owner commands name, and the ids of the OWNER_IDS variable of
\* the environment (a comma separated list of digits)
Users == {1, 2, 3}
EnvOwners == {1, 2}

\* the (keys, default) pairs passed to get
GetInputs ==
    { <<<<"a">>, Null>>,
      <<<<"auto_role", "member">>, Null>>,
      <<<<"warnings", "99">>, JList(<<>>)>>,
      <<<<"warnings", "100">>, JList(<<>>)>>,
      <<<<"muted_role", "x">>, JInt(0)>> }

(***************************************************************************)
(* State.                                                                  *)
(***************************************************************************)
VARIABLES
    files,   \* data/guilds/{guild_id}.json: the parsed content, or NoFile
    locks,   \* self._locks: "none" (no entry), "free", or the holding task
    pc,      \* position of each task inside its store call
    op,      \* the call a task is running and its arguments
    data,    \* the local document of load / get / set, or the argument of save
    ret,     \* the value returned, once the call is done
    exc,     \* the exception raised to the caller, or "none"
    last,    \* per guild: the last save / set / delete_guild call that finished
    seen,    \* per task: the file and `last` of the guild when the task's call
             \* reached the file, and what the file system (for an owner
             \* command: the remote database) answered (io)
    nops,    \* store calls started so far
    made,    \* per guild: how many asyncio.Lock() objects _lock has constructed
    handle,  \* per task: which of them _lock returned to the task's call (0: none)
    defaults,    \* the document the next call of _default_guild() returns
    shared,  \* per task: the top-level keys of the returned document whose
             \* values are objects that something outliving the call refers to
    OWNER_IDS    \* owner.py: the module-level set of owner ids

\* state of the lock registry beside the locks themselves
lockvars == <<made, handle>>
\* state of the callers of the store (cogs)
cogvars == <<defaults, shared, OWNER_IDS>>

vars == <<files, locks, pc, op, data, ret, exc, last, seen, nops, lockvars, cogvars>>

NoOp == [name |-> "none"]
NoVal == [t |-> "unset"]
NoSeen == [file |-> NoVal, last |-> NoOp, io |-> "none"]

Init ==
    /\ files \in [Guilds -> InitRecords]
    /\ locks = [g \in Guilds |-> "none"]
    /\ pc = [t \in Tasks |-> "idle"]
    /\ op = [t \in Tasks |-> NoOp]
    /\ data = [t \in Tasks |-> NoVal]
    /\ ret = [t \in Tasks |-> NoVal]
    /\ exc = [t \in Tasks |-> "none"]
    /\ last = [g \in Guilds |-> IF files[g] = NoFile THEN NoOp
                                ELSE [name |-> "save", g |-> g, doc |-> files[g]]]
    /\ seen = [t \in Tasks |-> NoSeen]
    /\ nops = 0
    /\ made = [g \in Guilds |-> 0]
    /\ handle = [t \in Tasks |-> 0]
    /\ defaults = default_guild
    /\ shared = [t \in Tasks |-> {}]
    /\ OWNER_IDS = EnvOwners

\* a new lock is constructed at every call
guild_id_not_in_locks_always(registry, g) == TRUE

\* _lock, line 74: `if guild_id not in self._locks`
guild_id_not_in_locks(registry, g) == registry[g] = "none"

\* _lock(guild_id): create the entry on first use, return the same lock after
lock(registry, g) ==
    IF guild_id_not_in_locks(registry, g)
    THEN [registry EXCEPT ![g] = "free"] ELSE registry

\* a task enters a coroutine whose first statement is `async with self._lock(g)`
Enter(t, call, position) ==
    /\ pc[t] = "idle"
    /\ nops < MaxOps
    /\ nops' = nops + 1
    /\ op' = [op EXCEPT ![t] = call]
    /\ pc' = [pc EXCEPT ![t] = position]
    /\ locks' = lock(locks, call.g)
    /\ made' = [made EXCEPT ![call.g] =
                   IF guild_id_not_in_locks(locks, call.g) THEN @ + 1 ELSE @]
    /\ handle' = [handle EXCEPT ![t] = made'[call.g]]
    /\ UNCHANGED <<files, ret, exc, last, seen, cogvars>>

call_load(t, g) ==
    /\ Enter(t, [name |-> "load", g |-> g], "load_lock")
    /\ UNCHANGED data

call_save(t, g, d) ==
    /\ Enter(t, [name |-> "save", g |-> g, doc |-> d], "save_lock")
    /\ data' = [data EXCEPT ![t] = d]

call_get(t, g, keys, default) ==
    /\ Enter(t, [name |-> "get", g |-> g, keys |-> keys, default |-> default], "load_lock")
    /\ UNCHANGED data

call_set(t, g, keys, value) ==
    /\ Enter(t, [name |-> "set", g |-> g, keys |-> keys, value |-> value], "load_lock")
    /\ UNCHANGED data

call_delete_guild(t, g) ==
    /\ Enter(t, [name |-> "delete_guild", g |-> g], "delete_lock")
    /\ UNCHANGED data

\* the lock is taken whether it is free or not
acquire_unguarded(t) ==
    /\ pc[t] \in {"load_lock", "save_lock", "delete_lock"}
    /\ locks' = [locks EXCEPT ![op[t].g] = t]
    /\ pc' = [pc EXCEPT ![t] = CASE pc[t] = "load_lock" -> "load_body"
                                 [] pc[t] = "save_lock" -> "save_body"
                                 [] pc[t] = "delete_lock" -> "delete_body"]
    /\ UNCHANGED <<files, op, data, ret, exc, last, seen, nops, lockvars, cogvars>>

\* one lock for all guilds: it is free when no guild's lock is held
acquire_global(t) ==
    /\ pc[t] \in {"load_lock", "save_lock", "delete_lock"}
    /\ \A g \in Guilds : locks[g] \in {"none", "free"}
    /\ locks' = [locks EXCEPT ![op[t].g] = t]
    /\ pc' = [pc EXCEPT ![t] = CASE pc[t] = "load_lock" -> "load_body"
                                 [] pc[t] = "save_lock" -> "save_body"
                                 [] pc[t] = "delete_lock" -> "delete_body"]
    /\ UNCHANGED <<files, op, data, ret, exc, last, seen, nops, lockvars, cogvars>>

\* `async with self._lock(guild_id)`: Lock.acquire returns once the lock is free
acquire(t) ==
    /\ pc[t] \in {"load_lock", "save_lock", "delete_lock"}
    /\ locks[op[t].g] = "free"
    /\ locks' = [locks EXCEPT ![op[t].g] = t]
    /\ pc' = [pc EXCEPT ![t] = CASE pc[t] = "load_lock" -> "load_body"
                                 [] pc[t] = "save_lock" -> "save_body"
                                 [] pc[t] = "delete_lock" -> "delete_body"]
    /\ UNCHANGED <<files, op, data, ret, exc, last, seen, nops, lockvars, cogvars>>

\* leaving the `async with` block
release(t) == locks' = [locks EXCEPT ![op[t].g] = "free"]

\* the task reaches the file of its guild
Saw(t, io) ==
    seen' = [seen EXCEPT ![t] = [file |-> files[op[t].g], last |-> last[op[t].g], io |-> io]]

InLoad(t, name) ==
    /\ pc[t] = "load_body"
    /\ op[t].name = name
    /\ locks[op[t].g] = t
    /\ files[op[t].g] # Partial
    /\ Saw(t, "ok")

\* load writes the back-filled document to the file
load_persists(t) ==
    /\ InLoad(t, "load")
    /\ LET stored == load_file(files[op[t].g])
       IN /\ data' = [data EXCEPT ![t] = stored]
          /\ ret' = [ret EXCEPT ![t] = stored]
          /\ files' = [files EXCEPT ![op[t].g] = json_dump(stored)]
    /\ release(t)
    /\ pc' = [pc EXCEPT ![t] = "done"]
    /\ UNCHANGED <<op, exc, last, nops, lockvars, cogvars>>

\* load(guild_id), called directly
load(t) ==
    /\ InLoad(t, "load")
    /\ LET stored == load_file(files[op[t].g])
       IN /\ data' = [data EXCEPT ![t] = stored]
          /\ ret' = [ret EXCEPT ![t] = stored]
    /\ release(t)
    /\ pc' = [pc EXCEPT ![t] = "done"]
    /\ UNCHANGED <<files, op, exc, last, nops, lockvars, cogvars>>

\* get(guild_id, *keys, default): load, then the walk
get(t) ==
    /\ InLoad(t, "get")
    /\ LET stored == load_file(files[op[t].g])
       IN /\ data' = [data EXCEPT ![t] = stored]
          /\ ret' = [ret EXCEPT ![t] = get_walk(stored, op[t].keys, op[t].default)]
    /\ release(t)
    /\ pc' = [pc EXCEPT ![t] = "done"]
    /\ UNCHANGED <<files, op, exc, last, nops, lockvars, cogvars>>

\* the mutation and the save happen inside load's `async with` block
set_holding(t) ==
    /\ InLoad(t, "set")
    /\ LET r == set_walk(load_file(files[op[t].g]), op[t].keys, op[t].value)
       IN IF r.ok
          THEN /\ data' = [data EXCEPT ![t] = r.val]
               /\ pc' = [pc EXCEPT ![t] = "save_lock"]
               /\ UNCHANGED <<exc, last, locks>>
          ELSE /\ exc' = [exc EXCEPT ![t] = r.err]
               /\ pc' = [pc EXCEPT ![t] = "done"]
               /\ last' = [last EXCEPT ![op[t].g] = op[t]]
               /\ release(t)
               /\ UNCHANGED data
    /\ UNCHANGED <<files, op, ret, nops, lockvars, cogvars>>

\* set(guild_id, keys, value): load, the mutation, then `await self.save(...)`
\* (save is entered with the lock released by load)
set(t) ==
    /\ InLoad(t, "set")
    /\ release(t)
    /\ LET r == set_walk(load_file(files[op[t].g]), op[t].keys, op[t].value)
       IN IF r.ok
          THEN /\ data' = [data EXCEPT ![t] = r.val]
               /\ pc' = [pc EXCEPT ![t] = "save_lock"]
               /\ UNCHANGED <<exc, last>>
          ELSE /\ exc' = [exc EXCEPT ![t] = r.err]
               /\ pc' = [pc EXCEPT ![t] = "done"]
               /\ last' = [last EXCEPT ![op[t].g] = op[t]]
               /\ UNCHANGED data
    /\ UNCHANGED <<files, op, ret, nops, lockvars, cogvars>>

\* save returns without writing the file
save_dropped(t) ==
    /\ pc[t] = "save_body"
    /\ locks[op[t].g] = t
    /\ release(t)
    /\ last' = [last EXCEPT ![op[t].g] = op[t]]
    /\ pc' = [pc EXCEPT ![t] = "done"]
    /\ UNCHANGED <<files, op, data, ret, exc, seen, nops, lockvars, cogvars>>

\* _path ignores guild_id: every guild is written to the file of guild 42
save_fixed_path(t) ==
    /\ pc[t] = "save_body"
    /\ locks[op[t].g] = t
    /\ files' = [files EXCEPT ![42] = json_dump(data[t])]
    /\ release(t)
    /\ last' = [last EXCEPT ![op[t].g] = op[t]]
    /\ pc' = [pc EXCEPT ![t] = "done"]
    /\ UNCHANGED <<op, data, ret, exc, seen, nops, lockvars, cogvars>>

\* save(guild_id, data), called directly or by set
save(t) ==
    /\ pc[t] = "save_body"
    /\ locks[op[t].g] = t
    /\ files' = [files EXCEPT ![op[t].g] = json_dump(data[t])]
    /\ release(t)
    /\ last' = [last EXCEPT ![op[t].g] = op[t]]
    /\ pc' = [pc EXCEPT ![t] = "done"]
    /\ UNCHANGED <<op, data, ret, exc, seen, nops, lockvars, cogvars>>

\* os.remove(path) without the os.path.exists test
delete_guild_unchecked(t) ==
    /\ pc[t] = "delete_body"
    /\ locks[op[t].g] = t
    /\ Saw(t, "ok")
    /\ files' = [files EXCEPT ![op[t].g] = NoFile]
    /\ release(t)
    /\ last' = [last EXCEPT ![op[t].g] = op[t]]
    /\ exc' = [exc EXCEPT ![t] = IF files[op[t].g] = NoFile
                                  THEN "FileNotFoundError" ELSE "none"]
    /\ pc' = [pc EXCEPT ![t] = "done"]
    /\ UNCHANGED <<op, data, ret, nops, lockvars, cogvars>>

\* every file of DATA_DIR is removed, not only the guild's
delete_guild_all(t) ==
    /\ pc[t] = "delete_body"
    /\ locks[op[t].g] = t
    /\ Saw(t, "ok")
    /\ files' = [g \in Guilds |-> NoFile]
    /\ release(t)
    /\ last' = [last EXCEPT ![op[t].g] = op[t]]
    /\ pc' = [pc EXCEPT ![t] = "done"]
    /\ UNCHANGED <<op, data, ret, exc, nops, lockvars, cogvars>>

\* delete_guild(guild_id): remove the file if it exists
delete_guild(t) ==
    /\ pc[t] = "delete_body"
    /\ locks[op[t].g] = t
    /\ Saw(t, "ok")
    /\ files' = [files EXCEPT ![op[t].g] =
                    IF files[op[t].g] # NoFile THEN NoFile ELSE files[op[t].g]]
    /\ release(t)
    /\ last' = [last EXCEPT ![op[t].g] = op[t]]
    /\ pc' = [pc EXCEPT ![t] = "done"]
    /\ UNCHANGED <<op, data, ret, exc, nops, lockvars, cogvars>>

\* the caller takes the result; the task is free for its next call
return(t) ==
    /\ pc[t] = "done"
    /\ pc' = [pc EXCEPT ![t] = "idle"]
    /\ op' = [op EXCEPT ![t] = NoOp]
    /\ data' = [data EXCEPT ![t] = NoVal]
    /\ ret' = [ret EXCEPT ![t] = NoVal]
    /\ exc' = [exc EXCEPT ![t] = "none"]
    /\ seen' = [seen EXCEPT ![t] = NoSeen]
    /\ handle' = [handle EXCEPT ![t] = 0]
    /\ shared' = [shared EXCEPT ![t] = {}]
    /\ UNCHANGED <<files, locks, last, nops, made, defaults, OWNER_IDS>>

Next ==
    \E t \in Tasks :
        \/ \E g \in Guilds : call_load(t, g)
        \/ \E g \in Guilds, d \in SaveDocs : call_save(t, g, d)
        \/ \E g \in Guilds, in \in GetInputs : call_get(t, g, in[1], in[2])
        \/ \E g \in Guilds, in \in SetInputs : call_set(t, g, in[1], in[2])
        \/ \E g \in Guilds : call_delete_guild(t, g)
        \/ acquire(t)
        \/ load(t)
        \/ get(t)
        \/ set(t)
        \/ save(t)
        \/ delete_guild(t)
        \/ return(t)

Spec == Init /\ [][Next]_vars

Done(t, name) == pc[t] = "done" /\ op[t].name = name
Bodies == {"load_body", "save_body", "delete_body"}

(***************************************************************************)
(* The same store on a file system that can fail.  data.py has no          *)
(* try/except: an exception of open, json.load, json.dump or os.remove     *)
(* leaves the `async with` block (releasing the lock) and reaches the      *)
(* caller of load / get / set / save / delete_guild.                       *)
(***************************************************************************)
\* the task's call ends with exception e
Fails(t, e) ==
    /\ locks[op[t].g] = t
    /\ release(t)
    /\ exc' = [exc EXCEPT ![t] = e]
    /\ pc' = [pc EXCEPT ![t] = "done"]
    /\ UNCHANGED <<op, data, ret, last, nops, lockvars, cogvars>>

\* load, lines 87-89 (also inside get and set): the file exists and open
\* raises OSError, or json.load raises on a file that is not whole
load_unreadable(t) ==
    /\ pc[t] = "load_body"
    /\ files[op[t].g] # NoFile
    /\ Saw(t, "unreadable")
    /\ \/ Fails(t, "OSError")
       \/ files[op[t].g] = Partial /\ Fails(t, "JSONDecodeError")
    /\ UNCHANGED files

\* save, lines 105-106: open(path, "w") raises and the file is untouched,
\* or the file is truncated and the write stops before json.dump is through
save_fails(t) ==
    /\ pc[t] = "save_body"
    /\ seen' = [seen EXCEPT ![t].io = "rejected"]
    /\ Fails(t, "OSError")
    /\ \/ UNCHANGED files
       \/ files' = [files EXCEPT ![op[t].g] = Partial]

\* delete_guild, line 140: os.remove raises
delete_fails(t) ==
    /\ pc[t] = "delete_body"
    /\ files[op[t].g] # NoFile
    /\ Saw(t, "rejected")
    /\ Fails(t, "OSError")
    /\ UNCHANGED files

\* one input of each kind, where the variety of documents is not the point
NarrowSetInputs == { <<<<"a">>, JInt(1)>> }
NarrowGetInputs == { <<<<"a">>, Null>> }

NextFault ==
    \E t \in Tasks :
        \/ \E g \in Guilds : call_load(t, g)
        \/ \E g \in Guilds : call_save(t, g, FullDoc)
        \/ \E g \in Guilds, in \in NarrowGetInputs : call_get(t, g, in[1], in[2])
        \/ \E g \in Guilds, in \in NarrowSetInputs : call_set(t, g, in[1], in[2])
        \/ \E g \in Guilds : call_delete_guild(t, g)
        \/ acquire(t)
        \/ load(t)
        \/ get(t)
        \/ set(t)
        \/ save(t)
        \/ delete_guild(t)
        \/ return(t)
        \/ load_unreadable(t)
        \/ save_fails(t)
        \/ delete_fails(t)

SpecFault == Init /\ [][NextFault]_vars

(***************************************************************************)
(* Shutdown, bot.py lines 71-73: CoreBot.close awaits self.db.close() and  *)
(* then super().close(), which closes the chat client.                     *)
(***************************************************************************)
\* the attributes class GuildDB defines
GuildDBMethods == {"__init__", "_lock", "_path", "load", "save", "get", "set", "delete_guild"}
\* what close returns once super().close() has run
ClientClosed == JStr("client closed")

\* CoreBot.close(): the attribute lookup self.db.close raises AttributeError
\* when GuildDB has no such method, and super().close() is not reached
CoreBot_close(t) ==
    /\ pc[t] = "idle"
    /\ nops < MaxOps
    /\ nops' = nops + 1
    /\ op' = [op EXCEPT ![t] = [name |-> "CoreBot.close", call |-> "close"]]
    /\ pc' = [pc EXCEPT ![t] = "done"]
    /\ IF "close" \in GuildDBMethods
       THEN ret' = [ret EXCEPT ![t] = ClientClosed] /\ UNCHANGED exc
       ELSE exc' = [exc EXCEPT ![t] = "AttributeError"] /\ UNCHANGED ret
    /\ UNCHANGED <<files, locks, data, last, seen, lockvars, cogvars>>

NextClose ==
    \E t \in Tasks :
        \/ \E g \in Guilds : call_load(t, g)
        \/ \E g \in Guilds : call_save(t, g, FullDoc)
        \/ \E g \in Guilds, in \in NarrowGetInputs : call_get(t, g, in[1], in[2])
        \/ \E g \in Guilds, in \in NarrowSetInputs : call_set(t, g, in[1], in[2])
        \/ \E g \in Guilds : call_delete_guild(t, g)
        \/ acquire(t)
        \/ load(t)
        \/ get(t)
        \/ set(t)
        \/ save(t)
        \/ delete_guild(t)
        \/ return(t)
        \/ CoreBot_close(t)

SpecClose == Init /\ [][NextClose]_vars

(***************************************************************************)
(* The store alone, with one input of each kind, and the same under the    *)
(* scheduling of the event loop: a task that can run is run (the body of a *)
(* locked section does blocking I/O and goes through), and a task that     *)
(* waits for an asyncio.Lock is woken when the lock is released (waiters   *)
(* are served first come first).  Callers are not obliged to call.  The    *)
(* steps that leave a locked section are those of load, get, set, save and *)
(* delete_guild, which can be taken whenever a task is inside one.         *)
(***************************************************************************)
NextStore ==
    \E t \in Tasks :
        \/ \E g \in Guilds : call_load(t, g)
        \/ \E g \in Guilds : call_save(t, g, FullDoc)
        \/ \E g \in Guilds, in \in NarrowGetInputs : call_get(t, g, in[1], in[2])
        \/ \E g \in Guilds, in \in NarrowSetInputs : call_set(t, g, in[1], in[2])
        \/ \E g \in Guilds : call_delete_guild(t, g)
        \/ acquire(t)
        \/ load(t)
        \/ get(t)
        \/ set(t)
        \/ save(t)
        \/ delete_guild(t)
        \/ return(t)

SpecStore == Init /\ [][NextStore]_vars

\* a task inside a locked section is run to the end of the block: load, get,
\* save and delete_guild return, set goes on to its save
Runs(t) ==
    /\ pc[t] \in {"load_body", "save_body", "delete_body"}
    /\ pc' \in {[pc EXCEPT ![t] = "done"], [pc EXCEPT ![t] = "save_lock"]}

EventLoop ==
    \A t \in Tasks :
        /\ SF_vars(acquire(t))
        /\ WF_pc(Runs(t))

SpecLive == SpecStore /\ EventLoop

(***************************************************************************)
(* Callers of the store (cogs).  A command handler is a coroutine of the   *)
(* event loop like any other: it awaits load, changes the document it got  *)
(* and awaits save, or awaits set / get.  The statements between two       *)
(* awaits are one step.                                                    *)
(***************************************************************************)
\* the store as a starting bot finds it: every guild's file is one of records
InitWith(records) ==
    /\ files \in [Guilds -> records]
    /\ locks = [g \in Guilds |-> "none"]
    /\ pc = [t \in Tasks |-> "idle"]
    /\ op = [t \in Tasks |-> NoOp]
    /\ data = [t \in Tasks |-> NoVal]
    /\ ret = [t \in Tasks |-> NoVal]
    /\ exc = [t \in Tasks |-> "none"]
    /\ last = [g \in Guilds |-> IF files[g] = NoFile THEN NoOp
                                ELSE [name |-> "save", g |-> g, doc |-> files[g]]]
    /\ seen = [t \in Tasks |-> NoSeen]
    /\ nops = 0
    /\ made = [g \in Guilds |-> 0]
    /\ handle = [t \in Tasks |-> 0]
    /\ defaults = default_guild
    /\ shared = [t \in Tasks |-> {}]
    /\ OWNER_IDS = EnvOwners

\* the handler got the document of its load and goes on to `await save`
ToSave(t, doc) ==
    /\ data' = [data EXCEPT ![t] = doc]
    /\ pc' = [pc EXCEPT ![t] = "save_lock"]
    /\ UNCHANGED <<exc, last>>

\* the handler returns (or raises e) after its load, without saving
NoSave(t, e) ==
    /\ exc' = [exc EXCEPT ![t] = e]
    /\ pc' = [pc EXCEPT ![t] = "done"]
    /\ last' = IF e = "none" THEN last ELSE [last EXCEPT ![op[t].g] = op[t]]
    /\ UNCHANGED data

(***************************************************************************)
(* cc warn, mod.py lines 402-406.                                          *)
(***************************************************************************)
\* guild_data["warnings"].setdefault(uid, []).append(reason)
warn_append(doc, uid, reason) ==
    LET warnings == doc.v["warnings"]
        cur == IF HasKey(warnings, uid) THEN warnings.v[uid].v ELSE <<>>
    IN PutKey(doc, "warnings", PutKey(warnings, uid, JList(Append(cur, reason))))

Reasons == {JStr("spam"), JStr("flood")}

call_warn(t, g, uid, reason) ==
    /\ Enter(t, [name |-> "warn", g |-> g, uid |-> uid, reason |-> reason], "load_lock")
    /\ UNCHANGED data

\* from the return of load to `await save`; count is read from the same local
\* document once save has returned
warn(t) ==
    /\ InLoad(t, "warn")
    /\ release(t)
    /\ LET guild_data == warn_append(load_file(files[op[t].g]), op[t].uid, op[t].reason)
       IN /\ ToSave(t, guild_data)
          /\ ret' = [ret EXCEPT ![t] = JInt(Len(guild_data.v["warnings"].v[op[t].uid].v))]
    /\ UNCHANGED <<files, op, nops, lockvars, cogvars>>

NextWarn ==
    \E t \in Tasks :
        \/ \E g \in Guilds, reason \in Reasons : call_warn(t, g, "99", reason)
        \/ acquire(t)
        \/ warn(t)
        \/ save(t)
        \/ return(t)

SpecWarn == Init /\ [][NextWarn]_vars

(***************************************************************************)
(* cc warnclean, mod.py lines 468-491.                                     *)
(***************************************************************************)
NoWarnings == JStr("has no warnings to clear")
ClearedAll == JStr("Cleared all warning(s)")
InvalidNumber == JStr("Invalid warning number")
RemovedWarning == JStr("Removed warning")

\* warns.pop(index) without the `- 1`
warns_pop_index(warns, index) ==
    SubSeq(warns, 1, index) \o SubSeq(warns, index + 2, Len(warns))

\* warns.pop(index - 1), for 1 <= index <= len(warns)
warns_pop(warns, index) ==
    SubSeq(warns, 1, index - 1) \o SubSeq(warns, index + 1, Len(warns))

\* guild_data["warnings"].get(uid, [])
warns_of(guild_data, uid) ==
    IF HasKey(guild_data.v["warnings"], uid)
    THEN guild_data.v["warnings"].v[uid].v ELSE <<>>

\* guild_data["warnings"][uid] = warns
with_warns(guild_data, uid, warns) ==
    PutKey(guild_data, "warnings", PutKey(guild_data.v["warnings"], uid, JList(warns)))

\* a record with three warnings of member 99, and one whose list was cleared
ThreeWarnings ==
    with_warns(default_guild, "99", <<JStr("spam"), JStr("flood"), JStr("caps")>>)
ClearedWarnings == with_warns(default_guild, "99", <<>>)
WarnRecords == {NoFile, ThreeWarnings, ClearedWarnings}

\* index: None, or an int
Indexes == {Null} \cup {JInt(i) : i \in 0..4}

call_warnclean(t, g, uid, index) ==
    /\ Enter(t, [name |-> "warnclean", g |-> g, uid |-> uid, index |-> index], "load_lock")
    /\ UNCHANGED data

\* from the return of load to `await save`, or to the return without save
warnclean(t) ==
    /\ InLoad(t, "warnclean")
    /\ release(t)
    /\ LET guild_data == load_file(files[op[t].g])
           uid == op[t].uid
           index == op[t].index
           warns == warns_of(guild_data, uid)
       IN IF warns = <<>>
          THEN NoSave(t, "none") /\ ret' = [ret EXCEPT ![t] = NoWarnings]
          ELSE IF index = Null
          THEN /\ ToSave(t, with_warns(guild_data, uid, <<>>))
               /\ ret' = [ret EXCEPT ![t] = ClearedAll]
          ELSE IF ~(1 <= index.v /\ index.v <= Len(warns))
          THEN NoSave(t, "none") /\ ret' = [ret EXCEPT ![t] = InvalidNumber]
          ELSE /\ ToSave(t, with_warns(guild_data, uid, warns_pop(warns, index.v)))
               /\ ret' = [ret EXCEPT ![t] = RemovedWarning]
    /\ UNCHANGED <<files, op, nops, lockvars, cogvars>>

NextWarnclean ==
    \E t \in Tasks :
        \/ \E g \in Guilds, index \in Indexes : call_warnclean(t, g, "99", index)
        \/ acquire(t)
        \/ warnclean(t)
        \/ save(t)
        \/ return(t)

SpecWarnclean == InitWith(WarnRecords) /\ [][NextWarnclean]_vars

(***************************************************************************)
(* cc rr add / remove / clear, auto.py lines 156-197.  Each indexes        *)
(* data["reaction_roles"] of the loaded document: KeyError when the        *)
(* document has no such key.                                               *)
(***************************************************************************)
\* del obj[key]
DelKey(x, k) == JDict([j \in DOMAIN x.v \ {k} |-> x.v[j]])

\* the handler's command raises KeyError at data["reaction_roles"]
NoReactionRoles(t) == NoSave(t, "KeyError")

\* a record that has the key: message 1 with one binding
OneBinding ==
    PutKey(default_guild, "reaction_roles",
           JDict([m \in {"1"} |-> JDict([e \in {"x"} |-> JInt(3)])]))
RRRecords == {NoFile, OneBinding}
Emojis == {"x", "y"}

call_rr_add(t, g, message_id, emoji, role) ==
    /\ Enter(t, [name |-> "rr_add", g |-> g, message_id |-> message_id,
                 emoji |-> emoji, role |-> role], "load_lock")
    /\ UNCHANGED data

call_rr_remove(t, g, message_id, emoji) ==
    /\ Enter(t, [name |-> "rr_remove", g |-> g, message_id |-> message_id,
                 emoji |-> emoji], "load_lock")
    /\ UNCHANGED data

call_rr_clear(t, g, message_id) ==
    /\ Enter(t, [name |-> "rr_clear", g |-> g, message_id |-> message_id], "load_lock")
    /\ UNCHANGED data

\* rr_add, lines 156-157
rr_add(t) ==
    /\ InLoad(t, "rr_add")
    /\ release(t)
    /\ LET d == load_file(files[op[t].g])
           mid == ToString(op[t].message_id)
       IN IF ~HasKey(d, "reaction_roles") THEN NoReactionRoles(t)
          ELSE LET rr == d.v["reaction_roles"]
                   msg_map == IF HasKey(rr, mid) THEN rr.v[mid] ELSE EmptyDict
               IN ToSave(t, PutKey(d, "reaction_roles",
                            PutKey(rr, mid, PutKey(msg_map, op[t].emoji, JInt(op[t].role)))))
    /\ UNCHANGED <<files, op, ret, nops, lockvars, cogvars>>

\* what rr_remove leaves of the bindings: the emoji is deleted and the
\* message keeps its map, empty or not
rr_remove_binding_only(rr, mid, emoji) ==
    PutKey(rr, mid, DelKey(rr.v[mid], emoji))

\* rr_remove, lines 175-179: del msg_map[emoji], then the message entry is
\* deleted when the map is empty and assigned otherwise
rr_remove_binding(rr, mid, emoji) ==
    LET msg_map == DelKey(rr.v[mid], emoji)
    IN IF DOMAIN msg_map.v = {} THEN DelKey(rr, mid) ELSE PutKey(rr, mid, msg_map)

\* rr_remove, lines 167-181
rr_remove(t) ==
    /\ InLoad(t, "rr_remove")
    /\ release(t)
    /\ LET d == load_file(files[op[t].g])
           mid == ToString(op[t].message_id)
       IN IF ~HasKey(d, "reaction_roles") THEN NoReactionRoles(t)
          ELSE LET rr == d.v["reaction_roles"]
                   msg_map == IF HasKey(rr, mid) THEN rr.v[mid] ELSE EmptyDict
               IN IF ~HasKey(msg_map, op[t].emoji) THEN NoSave(t, "none")
                  ELSE ToSave(t, PutKey(d, "reaction_roles",
                                        rr_remove_binding(rr, mid, op[t].emoji)))
    /\ UNCHANGED <<files, op, ret, nops, lockvars, cogvars>>

\* rr_clear, lines 190-195
rr_clear(t) ==
    /\ InLoad(t, "rr_clear")
    /\ release(t)
    /\ LET d == load_file(files[op[t].g])
           mid == ToString(op[t].message_id)
       IN IF ~HasKey(d, "reaction_roles") THEN NoReactionRoles(t)
          ELSE IF ~HasKey(d.v["reaction_roles"], mid) THEN NoSave(t, "none")
          ELSE ToSave(t, PutKey(d, "reaction_roles", DelKey(d.v["reaction_roles"], mid)))
    /\ UNCHANGED <<files, op, ret, nops, lockvars, cogvars>>

NextRR ==
    \E t \in Tasks :
        \/ \E g \in Guilds, emoji \in Emojis : call_rr_add(t, g, 1, emoji, 3)
        \/ \E g \in Guilds, emoji \in Emojis : call_rr_remove(t, g, 1, emoji)
        \/ \E g \in Guilds : call_rr_clear(t, g, 1)
        \/ acquire(t)
        \/ rr_add(t)
        \/ rr_remove(t)
        \/ rr_clear(t)
        \/ save(t)
        \/ return(t)

SpecRR == InitWith(RRRecords) /\ [][NextRR]_vars

(***************************************************************************)
(* cc welc msg, welcome.py lines 99-105: two calls of set, the template    *)
(* and then the embed flag; and on_member_join, bot.py lines 111-138,      *)
(* which loads the document and reads both.                                *)
(***************************************************************************)
\* the command text: whether it starts with "$em", and the rest, stripped
Templates ==
    { [em |-> TRUE, text |-> "{description Hi {user}}"],
      [em |-> FALSE, text |-> "Hi {user}"] }

\* the key path and the value of the first and of the second set
welc_path(call) ==
    IF call.stage = 1 THEN <<"welcome", "message">> ELSE <<"welcome", "embed">>
welc_value(call) ==
    IF call.stage = 1 THEN JStr(call.template) ELSE JBool(call.embed_mode)

call_welc_msg(t, g, template) ==
    /\ Enter(t, [name |-> "welc_msg", g |-> g, template |-> template.text,
                 embed_mode |-> template.em, stage |-> 1], "load_lock")
    /\ UNCHANGED data

\* inside set: from the return of load to `await self.save`
welc_msg_set(t) ==
    /\ InLoad(t, "welc_msg")
    /\ release(t)
    /\ LET r == set_walk(load_file(files[op[t].g]), welc_path(op[t]), welc_value(op[t]))
       IN IF r.ok THEN ToSave(t, r.val) ELSE NoSave(t, r.err)
    /\ UNCHANGED <<files, op, ret, nops, lockvars, cogvars>>

\* the save of the first set returns and the second set is called
welc_msg_between(t) ==
    /\ pc[t] = "save_body"
    /\ op[t].name = "welc_msg" /\ op[t].stage = 1
    /\ locks[op[t].g] = t
    /\ files' = [files EXCEPT ![op[t].g] = json_dump(data[t])]
    /\ release(t)
    /\ last' = [last EXCEPT ![op[t].g] = op[t]]
    /\ op' = [op EXCEPT ![t].stage = 2]
    /\ pc' = [pc EXCEPT ![t] = "load_lock"]
    /\ UNCHANGED <<data, ret, exc, seen, nops, lockvars, cogvars>>

\* the save of the second set
welc_msg_saved(t) ==
    /\ op[t].name = "welc_msg" /\ op[t].stage = 2
    /\ save(t)

\* welcome.get("message", ...) and welcome.get("embed", False), bot.py 137-138
template_of(gdata) ==
    LET welcome == IF HasKey(gdata, "welcome") THEN gdata.v["welcome"] ELSE EmptyDict
    IN IF HasKey(welcome, "message") THEN welcome.v["message"] ELSE WelcomeMessage
embed_of(gdata) ==
    LET welcome == IF HasKey(gdata, "welcome") THEN gdata.v["welcome"] ELSE EmptyDict
    IN IF HasKey(welcome, "embed") THEN welcome.v["embed"] ELSE JBool(FALSE)

call_on_member_join(t, g) ==
    /\ Enter(t, [name |-> "on_member_join", g |-> g], "load_lock")
    /\ UNCHANGED data

\* the load of on_member_join and what it reads for the welcome message
on_member_join(t) ==
    /\ InLoad(t, "on_member_join")
    /\ release(t)
    /\ LET gdata == load_file(files[op[t].g])
       IN /\ data' = [data EXCEPT ![t] = gdata]
          /\ ret' = [ret EXCEPT ![t] = JDict([k \in {"template", "embed_mode"} |->
                         IF k = "template" THEN template_of(gdata) ELSE embed_of(gdata)])]
    /\ pc' = [pc EXCEPT ![t] = "done"]
    /\ UNCHANGED <<files, op, exc, last, nops, lockvars, cogvars>>

NextWelcome ==
    \E t \in Tasks :
        \/ \E g \in Guilds, template \in Templates : call_welc_msg(t, g, template)
        \/ \E g \in Guilds : call_on_member_join(t, g)
        \/ acquire(t)
        \/ welc_msg_set(t)
        \/ welc_msg_between(t)
        \/ welc_msg_saved(t)
        \/ on_member_join(t)
        \/ return(t)

SpecWelcome == Init /\ [][NextWelcome]_vars

(***************************************************************************)
(* cc imute / cc iunmute, mod.py lines 598-606 and 626-632, and the        *)
(* attachment filter of on_message, lines 662-667, which is a get.         *)
(***************************************************************************)
AlreadyMuted == JStr("is already image-muted")
NowMuted == JStr("is now image-muted")
NotMuted == JStr("is not image-muted")
MuteRemoved == JStr("image mute removed")

\* bool(x), for the values a document holds
truthy(x) ==
    CASE x.t = "null" -> FALSE
      [] x.t = "bool" -> x.v
      [] x.t = "int" -> x.v # 0
      [] x.t = "str" -> x.v # ""
      [] x.t = "list" -> x.v # <<>>
      [] OTHER -> DOMAIN x.v # {}

\* guild_data["image_muted"].get(uid), as a condition
image_muted_get(guild_data, uid) ==
    /\ HasKey(guild_data.v["image_muted"], uid)
    /\ truthy(guild_data.v["image_muted"].v[uid])

\* the entry is set to False and stays
image_muted_pop_false(image_muted, uid) == PutKey(image_muted, uid, JBool(FALSE))

\* guild_data["image_muted"].pop(uid, None)
image_muted_pop(image_muted, uid) == DelKey(image_muted, uid)

\* a record in which member 99 is image-muted
MutedRecord ==
    PutKey(default_guild, "image_muted", JDict([u \in {"99"} |-> JBool(TRUE)]))
MuteRecords == {NoFile, MutedRecord}
Members == {"99", "100"}

call_imute(t, g, uid) ==
    /\ Enter(t, [name |-> "imute", g |-> g, uid |-> uid], "load_lock")
    /\ UNCHANGED data

call_iunmute(t, g, uid) ==
    /\ Enter(t, [name |-> "iunmute", g |-> g, uid |-> uid], "load_lock")
    /\ UNCHANGED data

\* on_message: the handler's only store call is get with default False
call_on_message(t, g, uid) == call_get(t, g, <<"image_muted", uid>>, JBool(FALSE))

\* imute, lines 598-606
imute(t) ==
    /\ InLoad(t, "imute")
    /\ release(t)
    /\ LET guild_data == load_file(files[op[t].g])
       IN IF image_muted_get(guild_data, op[t].uid)
          THEN NoSave(t, "none") /\ ret' = [ret EXCEPT ![t] = AlreadyMuted]
          ELSE /\ ToSave(t, put_nested(guild_data, "image_muted", op[t].uid, JBool(TRUE)))
               /\ ret' = [ret EXCEPT ![t] = NowMuted]
    /\ UNCHANGED <<files, op, nops, lockvars, cogvars>>

\* iunmute, lines 626-633
iunmute(t) ==
    /\ InLoad(t, "iunmute")
    /\ release(t)
    /\ LET guild_data == load_file(files[op[t].g])
       IN IF ~image_muted_get(guild_data, op[t].uid)
          THEN NoSave(t, "none") /\ ret' = [ret EXCEPT ![t] = NotMuted]
          ELSE /\ ToSave(t, PutKey(guild_data, "image_muted",
                               image_muted_pop(guild_data.v["image_muted"], op[t].uid)))
               /\ ret' = [ret EXCEPT ![t] = MuteRemoved]
    /\ UNCHANGED <<files, op, nops, lockvars, cogvars>>

NextImute ==
    \E t \in Tasks :
        \/ \E g \in Guilds, uid \in Members : call_imute(t, g, uid)
        \/ \E g \in Guilds, uid \in Members : call_iunmute(t, g, uid)
        \/ \E g \in Guilds, uid \in Members : call_on_message(t, g, uid)
        \/ acquire(t)
        \/ imute(t)
        \/ iunmute(t)
        \/ get(t)
        \/ save(t)
        \/ return(t)

SpecImute == InitWith(MuteRecords) /\ [][NextImute]_vars

(***************************************************************************)
(* load with the identity of the objects it returns.  json.load builds new *)
(* objects from the text of the file, `stored = {}` is a new dict, and     *)
(* _default_guild() evaluates its dict displays anew at every call, so the *)
(* values load back-fills belong to the returned document alone.  A caller *)
(* may then change the document in place, as every handler does.           *)
(***************************************************************************)
\* _default_guild is one module-level dict that every load reads
defaults_aliases_module(backfilled) == backfilled

\* of the back-filled keys, those whose value is an object that outlives the
\* call: none, `defaults = _default_guild()` (line 93) is built for this call
defaults_aliases(backfilled) == {}

load_object(t) ==
    /\ InLoad(t, "load")
    /\ LET file == files[op[t].g]
           stored == IF file # NoFile THEN json_load(file) ELSE EmptyDict
           doc == merge_defaults(stored, defaults, 1)
       IN /\ data' = [data EXCEPT ![t] = doc]
          /\ ret' = [ret EXCEPT ![t] = doc]
          /\ shared' = [shared EXCEPT ![t] =
                            defaults_aliases(DefaultKeySet \ DOMAIN stored.v)]
    /\ release(t)
    /\ pc' = [pc EXCEPT ![t] = "done"]
    /\ UNCHANGED <<files, op, exc, last, nops, lockvars, defaults, OWNER_IDS>>

\* what callers write into a document: data["welcome"]["channel_id"] = 1,
\* data["warnings"]["99"] = ["spam"]
Mutations == { <<"welcome", "channel_id", JInt(1)>>, <<"warnings", "99", Spam>> }

\* the caller of load changes the returned document in place and does not
\* save; the change shows in every object that shares the changed dict
mutate(t, k, f, v) ==
    /\ Done(t, "load")
    /\ ret[t].v[k].t = "dict"
    /\ ret' = [u \in Tasks |->
                IF u = t \/ (Done(u, "load") /\ k \in shared[t] \cap shared[u])
                THEN put_nested(ret[u], k, f, v) ELSE ret[u]]
    /\ data' = [u \in Tasks |-> IF Done(u, "load") THEN ret'[u] ELSE data[u]]
    /\ defaults' = IF k \in shared[t] THEN put_nested(defaults, k, f, v) ELSE defaults
    /\ UNCHANGED <<files, locks, pc, op, exc, last, seen, nops, lockvars, shared, OWNER_IDS>>

NextCopy ==
    \E t \in Tasks :
        \/ \E g \in Guilds : call_load(t, g)
        \/ acquire(t)
        \/ load_object(t)
        \/ \E m \in Mutations : mutate(t, m[1], m[2], m[3])
        \/ return(t)

SpecCopy == Init /\ [][NextCopy]_vars

(***************************************************************************)
(* cc addowner / cc removeowner, owner.py lines 391-417.  The handler      *)
(* tests OWNER_IDS, awaits the remote database call (an HTTP request: the  *)
(* task is suspended until the answer) and then updates OWNER_IDS.         *)
(***************************************************************************)
AlreadyOwner == JStr("is already an owner")
NotOwner == JStr("is not an owner")
LastOwner == JStr("Cannot remove the last owner")
FailedSave == JStr("Failed to save to database")
FailedRemove == JStr("Failed to remove from database")
OwnerAdded == JStr("added as an owner")
OwnerRemoved == JStr("removed from owners")

\* the handler runs up to its first await: it answers at once, or it is
\* suspended on the remote call
OwnerCommand(t, call, refusal) ==
    /\ pc[t] = "idle"
    /\ nops < MaxOps
    /\ nops' = nops + 1
    /\ op' = [op EXCEPT ![t] = call]
    /\ IF refusal # Null
       THEN pc' = [pc EXCEPT ![t] = "done"] /\ ret' = [ret EXCEPT ![t] = refusal]
       ELSE pc' = [pc EXCEPT ![t] = "remote"] /\ UNCHANGED ret
    /\ UNCHANGED <<files, locks, data, exc, last, seen, lockvars, cogvars>>

\* addowner, lines 394-395
call_addowner(t, user) ==
    OwnerCommand(t, [name |-> "addowner", user |-> user],
                 IF user \in OWNER_IDS THEN AlreadyOwner ELSE Null)

\* removeowner, lines 407-410
call_removeowner(t, user) ==
    OwnerCommand(t, [name |-> "removeowner", user |-> user],
                 IF user \notin OWNER_IDS THEN NotOwner
                 ELSE IF Cardinality(OWNER_IDS) = 1 THEN LastOwner
                 ELSE Null)

\* the remote call returns (answer "ok") or raises (answer "rejected"), and the
\* handler runs to its end
Answered(t, answer, owners, message) ==
    /\ pc[t] = "remote"
    /\ seen' = [seen EXCEPT ![t].io = answer]
    /\ OWNER_IDS' = owners
    /\ ret' = [ret EXCEPT ![t] = message]
    /\ pc' = [pc EXCEPT ![t] = "done"]
    /\ UNCHANGED <<files, locks, op, data, exc, last, nops, lockvars, defaults, shared>>

\* OWNER_IDS.add(user.id) comes before the remote call
addowner_first(t) ==
    /\ op[t].name = "addowner"
    /\ \/ Answered(t, "ok", OWNER_IDS \cup {op[t].user}, OwnerAdded)
       \/ Answered(t, "rejected", OWNER_IDS \cup {op[t].user}, FailedSave)

\* addowner, lines 396-401
addowner(t) ==
    /\ op[t].name = "addowner"
    /\ \/ Answered(t, "ok", OWNER_IDS \cup {op[t].user}, OwnerAdded)
       \/ Answered(t, "rejected", OWNER_IDS, FailedSave)

\* removeowner, lines 411-416
removeowner(t) ==
    /\ op[t].name = "removeowner"
    /\ \/ Answered(t, "ok", OWNER_IDS \ {op[t].user}, OwnerRemoved)
       \/ Answered(t, "rejected", OWNER_IDS, FailedRemove)

NextOwner ==
    \E t \in Tasks :
        \/ \E user \in Users : call_addowner(t, user)
        \/ \E user \in Users : call_removeowner(t, user)
        \/ addowner(t)
        \/ removeowner(t)
        \/ return(t)

SpecOwner == Init /\ [][NextOwner]_vars

(***************************************************************************)
(* Properties.                                                             *)
(***************************************************************************)

IsPrefix(p, q) == Len(p) <= Len(q) /\ SubSeq(q, 1, Len(p)) = p

\* the path exists in the document, every segment but the last being a dict
RECURSIVE PathPresent(_, _)
PathPresent(d, keys) ==
    \/ keys = <<>>
    \/ /\ d.t = "dict"
       /\ Head(keys) \in DOMAIN d.v
       /\ PathPresent(d.v[Head(keys)], Tail(keys))

RECURSIVE ValueAt(_, _)
ValueAt(d, keys) == IF keys = <<>> THEN d ELSE ValueAt(d.v[Head(keys)], Tail(keys))

Holds(file, keys, value) ==
    file # NoFile /\ PathPresent(file, keys) /\ ValueAt(file, keys) = value

\* every key of every nested dict is a str, as in the data model
RECURSIVE StrKeyed(_)
StrKeyed(x) ==
    CASE x.t = "dict" -> \A k \in DOMAIN x.v : StrKeyed(x.v[k])
      [] x.t = "idict" -> FALSE
      [] x.t = "list" -> \A i \in DOMAIN x.v : StrKeyed(x.v[i])
      [] OTHER -> TRUE

SetExcludesOthers ==
    \A t \in Tasks : \A u \in Tasks \ {t} :
        (op[t].name = "set" /\ pc[t] \in {"save_lock", "save_body"})
        => ~(pc[u] \in Bodies /\ op[u].g = op[t].g)

\* C3: when two tasks have both returned from set on the same guild and the
\* same key path, the stored document holds the value of one of the two.
SameKeyOneWins ==
    \A t \in Tasks : \A u \in Tasks \ {t} :
        ( /\ Done(t, "set") /\ Done(u, "set")
          /\ exc[t] = "none" /\ exc[u] = "none"
          /\ op[t].g = op[u].g
          /\ op[t].keys = op[u].keys )
        => \/ Holds(files[op[t].g], op[t].keys, op[t].value)
           \/ Holds(files[op[t].g], op[t].keys, op[u].value)

\* both sets read the document before either wrote it, with different values
SameKeyRace ==
    /\ Done("A", "set") /\ Done("B", "set")
    /\ op["A"].g = op["B"].g
    /\ op["A"].keys = <<"a">> /\ op["B"].keys = <<"a">>
    /\ op["A"].value = JInt(1) /\ op["B"].value = JInt(2)
    /\ seen["A"].last = NoOp /\ seen["B"].last = NoOp
    /\ Holds(files[op["A"].g], <<"a">>, JInt(1))

\* C4: every document returned by load has the seven top-level keys of the
\* data model, "reaction_roles" included.
LoadHasAllKeys ==
    \A t \in Tasks :
        Done(t, "load") =>
            \A k \in {"warnings", "welcome", "auto_role", "muted_role",
                      "image_muted", "logs", "reaction_roles"} : HasKey(ret[t], k)

\* C5: load of a guild that has no file returns the default document.
LoadFreshIsDefault ==
    \A t \in Tasks :
        (Done(t, "load") /\ seen[t].file = NoFile) => ret[t] = default_guild

\* load of a guild whose file was removed by delete_guild
LoadAfterDelete ==
    \E t \in Tasks :
        /\ Done(t, "load") /\ seen[t].file = NoFile
        /\ seen[t].last.name = "delete_guild"

SetThenGet ==
    \A t \in Tasks :
        ( /\ Done(t, "get")
          /\ seen[t].last.name = "set"
          /\ seen[t].last.keys = op[t].keys )
        => ret[t] = seen[t].last.value

\* C8: load of a stored record r returns every top-level key of r with the
\* value stored in r, and adds only the default keys r lacks, each with its
\* default value.
BackfillShallow ==
    \A t \in Tasks :
        (Done(t, "load") /\ seen[t].file # NoFile)
        => LET r == seen[t].file
           IN /\ \A k \in DOMAIN r.v : ret[t].v[k] = r.v[k]
              /\ DOMAIN ret[t].v = DOMAIN r.v \cup DefaultKeySet
              /\ \A k \in DefaultKeySet \ DOMAIN r.v : ret[t].v[k] = default_guild.v[k]

\* load of a record whose "welcome" lacks nested default fields
BackfillOldRecord ==
    \E t \in Tasks :
        /\ Done(t, "load")
        /\ seen[t].file = OldRecord
        /\ ret[t].v["welcome"] = OldRecord.v["welcome"]
        /\ HasKey(ret[t], "logs")

\* C9: no step of a load or of a get changes the file of any guild.
LoadGetReadOnly ==
    [][ \A t \in Tasks :
          ( /\ pc'[t] # pc[t]
            /\ \/ op[t].name \in {"load", "get"}
               \/ op'[t].name \in {"load", "get"} )
          => files' = files ]_vars

\* a load has back-filled a record, and the file still misses the keys;
\* a get has read a guild without file, and there is still no file
ReadLeftStore ==
    \E t \in Tasks, u \in Tasks :
        /\ Done(t, "load") /\ seen[t].file = OldRecord
        /\ files[op[t].g] = OldRecord /\ ret[t] # OldRecord
        /\ Done(u, "get") /\ seen[u].file = NoFile
        /\ files[op[u].g] = NoFile

\* C10: get returns the value at the path when every segment is present in
\* a dict, and the default otherwise; it raises nothing.
GetDefaultOnMiss ==
    \A t \in Tasks :
        Done(t, "get")
        => /\ exc[t] = "none"
           /\ ret[t] = IF PathPresent(data[t], op[t].keys)
                       THEN ValueAt(data[t], op[t].keys)
                       ELSE op[t].default

\* after set(["warnings", "99"], ["spam"]), get("warnings", "100", default=[])
GetMissingNested ==
    \E t \in Tasks :
        /\ Done(t, "get")
        /\ op[t].keys = <<"warnings", "100">>
        /\ seen[t].last.name = "set"
        /\ seen[t].last.keys = <<"warnings", "99">>
        /\ Holds(data[t], <<"warnings", "99">>, Spam)
        /\ ret[t] = JList(<<>>)

\* C11: delete_guild raises nothing and leaves the guild without file; on a
\* guild that has no file it changes no file at all; and a load whose guild
\* saw delete_guild as its last write returns the default document.
DeleteIdempotent ==
    [][ \A t \in Tasks :
          /\ (pc[t] = "delete_body" /\ pc'[t] # pc[t])
             => /\ exc'[t] = "none"
                /\ pc'[t] = "done"
                /\ files'[op[t].g] = NoFile
                /\ files[op[t].g] = NoFile => files' = files
          /\ ( /\ pc[t] = "load_body" /\ pc'[t] # pc[t]
               /\ op[t].name = "load"
               /\ last[op[t].g].name = "delete_guild" )
             => ret'[t] = default_guild ]_vars

\* delete_guild ran on a guild without file, and the other task's load of
\* that guild came next
DeleteTwiceThenLoad ==
    \E t \in Tasks : \E u \in Tasks \ {t} :
        /\ Done(t, "delete_guild") /\ seen[t].file = NoFile /\ exc[t] = "none"
        /\ Done(u, "load") /\ seen[u].last = op[t]
        /\ ret[u] = default_guild

LockPcs == {"load_lock", "save_lock", "delete_lock"}

\* C12: at most one task is inside the locked section of load, save or
\* delete_guild of a guild, and that task is the holder of the guild's lock.
MutualExclusion ==
    /\ \A g \in Guilds :
          Cardinality({t \in Tasks : pc[t] \in Bodies /\ op[t].g = g}) <= 1
    /\ \A t \in Tasks : pc[t] \in Bodies => locks[op[t].g] = t

\* a task is inside the locked section while the other waits for the same lock
ContendedLock ==
    \E t \in Tasks : \E u \in Tasks \ {t} :
        /\ pc[t] \in Bodies /\ pc[u] \in LockPcs
        /\ op[t].g = op[u].g
        /\ locks[op[t].g] = t

\* C13: a task that waits for the lock of a guild can take it whenever no
\* other task is inside the locked section of that same guild, whatever
\* the tasks working on other guilds are doing.
NoCrossGuildWait ==
    \A t \in Tasks :
        ( /\ pc[t] \in LockPcs
          /\ \A u \in Tasks \ {t} : ~(pc[u] \in Bodies /\ op[u].g = op[t].g) )
        => ENABLED acquire(t)

\* the two tasks are inside the locked sections of two different guilds
TwoGuildsLocked ==
    /\ pc["A"] \in Bodies /\ pc["B"] \in Bodies
    /\ op["A"].g # op["B"].g
    /\ locks[op["A"].g] = "A" /\ locks[op["B"].g] = "B"

\* C14: the file of a guild changes only in the locked section of a save
\* (direct or of set) or delete_guild called for that same guild.
GuildIsolation ==
    [][ \A g \in Guilds :
          files'[g] # files[g]
          => \E t \in Tasks :
                /\ pc[t] \in {"save_body", "delete_body"} /\ pc'[t] = "done"
                /\ op[t].g = g ]_vars

\* guild 7 was saved and deleted while the record of guild 42 stayed
OtherGuildKept ==
    /\ Done("A", "save") /\ op["A"].g = 7 /\ op["A"].doc = FullDoc
    /\ Done("B", "delete_guild") /\ op["B"].g = 7 /\ seen["B"].file = FullDoc
    /\ files[42] = OldRecord
    /\ files[7] = NoFile

\* C18: the file of a guild disappears only in the locked section of a
\* delete_guild called for that guild.
OnlyDeleteRemoves ==
    [][ \A g \in Guilds :
          (files[g] # NoFile /\ files'[g] = NoFile)
          => \E t \in Tasks :
                /\ pc[t] = "delete_body" /\ pc'[t] = "done"
                /\ op[t].name = "delete_guild" /\ op[t].g = g ]_vars

\* a record created by set is still there after a get of the same guild and
\* while delete_guild has run on the other guild
RecordSurvives ==
    \E t \in Tasks : \E u \in Tasks \ {t} :
        /\ Done(t, "delete_guild") /\ seen[t].file # NoFile
        /\ files[op[t].g] = NoFile
        /\ Done(u, "set") /\ exc[u] = "none" /\ op[u].g # op[t].g
        /\ seen[u].file = NoFile
        /\ files[op[u].g] # NoFile

\* after is before with value assigned at keys: same keys and same values
\* at every level, except the key on the path
RECURSIVE FrameOk(_, _, _, _)
FrameOk(before, after, keys, value) ==
    /\ after.t = "dict"
    /\ DOMAIN after.v = DOMAIN before.v \cup {Head(keys)}
    /\ \A k \in DOMAIN before.v \ {Head(keys)} : after.v[k] = before.v[k]
    /\ IF Len(keys) = 1 THEN after.v[Head(keys)] = value
       ELSE FrameOk(IF Head(keys) \in DOMAIN before.v
                    THEN before.v[Head(keys)] ELSE EmptyDict,
                    after.v[Head(keys)], Tail(keys), value)

\* C19: the document a set saves is the document its load returned with the
\* value assigned at the path: every key off the path keeps its value, a
\* missing intermediate segment becomes a dict holding only the next
\* segment; and that document is what the file holds after the save.
SetFrame ==
    /\ [](\A t \in Tasks :
            ( /\ op[t].name = "set"
              /\ pc[t] \in {"save_lock", "save_body", "done"}
              /\ exc[t] = "none" )
            => FrameOk(load_file(seen[t].file), data[t], op[t].keys, op[t].value))
    /\ [][ \A t \in Tasks :
             (pc[t] = "save_body" /\ op[t].name = "set" /\ pc'[t] = "done")
             => files'[op[t].g] = data[t] ]_vars

\* set created the missing "reaction_roles" dict and kept the old record's
\* other keys
SetCreatedSegment ==
    \E t \in Tasks :
        /\ Done(t, "set") /\ op[t].keys = <<"reaction_roles", "1">>
        /\ seen[t].file = OldRecord
        /\ Holds(files[op[t].g], <<"reaction_roles", "1">>, op[t].value)
        /\ Holds(files[op[t].g], <<"welcome">>, OldRecord.v["welcome"])
        /\ DOMAIN files[op[t].g].v["reaction_roles"].v = {"1"}

\* C15: no load ever reads a record that is not whole, also after a save
\* that failed part-way; a load that read the file after a save returns
\* the saved document, back-filled.
SaveAtomic ==
    \A t \in Tasks :
        Done(t, "load")
        => /\ seen[t].file # Partial
           /\ (seen[t].io = "ok" /\ seen[t].last.name = "save")
              => ret[t] = load_file(json_dump(seen[t].last.doc))

\* C16: a load that could not read the file raises nothing, returns the
\* default document and does not keep the lock.
LoadAbsorbsReadFailure ==
    \A t \in Tasks :
        (Done(t, "load") /\ seen[t].io = "unreadable")
        => /\ exc[t] = "none"
           /\ ret[t] = default_guild
           /\ locks[op[t].g] # t

\* C17: when the file system rejects the write of save (direct or of set)
\* or the removal of delete_guild, the call raises nothing, the lock is
\* released and every file is as it was.
WriteFailureAbsorbed ==
    [][ \A t \in Tasks :
          ( /\ pc[t] \in {"save_body", "delete_body"} /\ pc'[t] = "done"
            /\ seen'[t].io = "rejected" )
          => /\ exc'[t] = "none"
             /\ locks'[op[t].g] = "free"
             /\ files' = files ]_vars

\* C20: the store call of CoreBot.close is one of load, save, get, set and
\* delete_guild, and close goes on past it to close the chat client.
ShutdownUsesStoreSurface ==
    \A t \in Tasks :
        Done(t, "CoreBot.close")
        => /\ op[t].call \in {"load", "save", "get", "set", "delete_guild"}
           /\ exc[t] = "none"
           /\ ret[t] = ClientClosed

\* C21: _lock constructs at most one lock per guild, and only for a guild
\* that has no entry; an entry is never removed nor replaced (also by
\* delete_guild); every task inside a call for guild g uses the lock of g's
\* entry, so any two of them use the same lock.
RegistryAppendOnly ==
    /\ [](\A g \in Guilds : made[g] <= 1 /\ (made[g] = 0 <=> locks[g] = "none"))
    /\ [](\A t \in Tasks : pc[t] # "idle" => handle[t] = 1 /\ handle[t] = made[op[t].g])
    /\ [][ \A g \in Guilds :
             /\ locks[g] # "none" => locks'[g] # "none"
             /\ made'[g] >= made[g]
             /\ made'[g] # made[g]
                => /\ locks[g] = "none"
                   /\ \E t \in Tasks : pc[t] = "idle" /\ pc'[t] # "idle" /\ op'[t].g = g ]_vars

\* two tasks asked for the lock of a guild unseen before; one has run
\* delete_guild, the other still waits on the same lock
SharedLockAfterDelete ==
    \E t \in Tasks : \E u \in Tasks \ {t} :
        /\ Done(t, "delete_guild") /\ pc[u] \in LockPcs
        /\ op[t].g = op[u].g
        /\ handle[t] = handle[u] /\ made[op[t].g] = 1
        /\ locks[op[t].g] = "free" /\ files[op[t].g] = NoFile

\* C23: every call that was started returns; the lock of a guild is free
\* (or not yet made) whenever no call on that guild is in progress; and no
\* task waits for a lock it holds itself.
NoDeadlock ==
    /\ \A t \in Tasks : (pc[t] # "idle") ~> (pc[t] = "done")
    /\ [](\A g \in Guilds :
            (\A t \in Tasks : pc[t] \in {"idle", "done"} \/ op[t].g # g)
            => locks[g] \in {"none", "free"})
    /\ [](\A t \in Tasks : pc[t] \in LockPcs => locks[op[t].g] # t)

\* a set waits for the lock of its save while the other task holds it, and
\* a get has returned
SetWaitsForSave ==
    \E t \in Tasks : \E u \in Tasks \ {t} :
        /\ op[t].name = "set" /\ pc[t] = "save_lock"
        /\ op[u].name = "get" /\ pc[u] = "load_body"
        /\ op[t].g = op[u].g /\ locks[op[t].g] = u

OwnersNeverEmpty == OWNER_IDS # {}

\* C26: OWNER_IDS changes only in the step in which a remote call has
\* returned; when the remote call raised, OWNER_IDS is as it was, the
\* handler raises nothing and its message is the failure message.
OwnersAfterRemote ==
    [][ /\ OWNER_IDS' # OWNER_IDS
           => \E t \in Tasks :
                 pc[t] = "remote" /\ pc'[t] = "done" /\ seen'[t].io = "ok"
        /\ \A t \in Tasks :
              (pc[t] = "remote" /\ pc'[t] = "done" /\ seen'[t].io = "rejected")
              => /\ OWNER_IDS' = OWNER_IDS
                 /\ exc'[t] = "none"
                 /\ ret'[t] = IF op[t].name = "addowner"
                              THEN FailedSave ELSE FailedRemove ]_vars

\* the remote call of an addowner and that of a removeowner have raised: the
\* new user is no owner and the old owner still is
BothRemoteFailed ==
    \E t \in Tasks : \E u \in Tasks \ {t} :
        /\ Done(t, "addowner") /\ seen[t].io = "rejected"
        /\ op[t].user \notin OWNER_IDS /\ ret[t] = FailedSave
        /\ Done(u, "removeowner") /\ seen[u].io = "rejected"
        /\ op[u].user \in OWNER_IDS /\ ret[u] = FailedRemove

\* the list without its i-th element (1-based), the others in their order
RemoveAt(w, i) == [j \in 1..(Len(w) - 1) |-> IF j < i THEN w[j] ELSE w[j + 1]]

\* C27: with the member's list w of the loaded document: when w is empty,
\* or the index is outside 1..Len(w), warnclean returns without a save and
\* no file changes; otherwise it saves the loaded document with the
\* member's list replaced, by the empty list when there is no index and by
\* w without its index-th element when there is, and that is what the file
\* holds after the save.
WarncleanExact ==
    /\ [](\A t \in Tasks :
            (op[t].name = "warnclean" /\ pc[t] \in {"save_lock", "save_body", "done"})
            => LET before == load_file(seen[t].file)
                   stored == before.v["warnings"].v
                   w == IF op[t].uid \in DOMAIN stored THEN stored[op[t].uid].v ELSE <<>>
                   i == op[t].index
               IN IF w = <<>> \/ (i # Null /\ i.v \notin 1..Len(w))
                  THEN pc[t] = "done" /\ data[t] = NoVal
                  ELSE /\ \A k \in DOMAIN before.v \ {"warnings"} : data[t].v[k] = before.v[k]
                       /\ DOMAIN data[t].v = DOMAIN before.v
                       /\ DOMAIN data[t].v["warnings"].v = DOMAIN stored \cup {op[t].uid}
                       /\ \A m \in DOMAIN stored \ {op[t].uid} :
                              data[t].v["warnings"].v[m] = stored[m]
                       /\ data[t].v["warnings"].v[op[t].uid] =
                              JList(IF i = Null THEN <<>> ELSE RemoveAt(w, i.v)))
    /\ [][ \A t \in Tasks :
             /\ (op[t].name = "warnclean" /\ pc[t] = "load_body" /\ pc'[t] = "done")
                => files' = files
             /\ (op[t].name = "warnclean" /\ pc[t] = "save_body" /\ pc'[t] = "done")
                => files'[op[t].g] = data[t] ]_vars

\* warning 2 of 3 was removed, and the other task's index 3 was refused
\* against the two that were left
SecondRemoved ==
    \E t \in Tasks : \E u \in Tasks \ {t} :
        /\ Done(t, "warnclean") /\ op[t].index = JInt(2)
        /\ seen[t].file = ThreeWarnings
        /\ Done(u, "warnclean") /\ op[u].index = JInt(3) /\ op[u].g = op[t].g
        /\ seen[u].last = op[t] /\ ret[u] = InvalidNumber
        /\ files[op[t].g].v["warnings"].v["99"] = JList(<<JStr("spam"), JStr("caps")>>)

\* C28: in no stored record does a message id of reaction_roles map to an
\* empty binding map; and the document rr remove saves has no entry for the
\* message when the binding it removed was the only one of the message.
NoEmptyBindings ==
    /\ \A g \in Guilds :
          (files[g] # NoFile /\ HasKey(files[g], "reaction_roles"))
          => \A m \in DOMAIN files[g].v["reaction_roles"].v :
                DOMAIN files[g].v["reaction_roles"].v[m].v # {}
    /\ \A t \in Tasks :
          ( /\ op[t].name = "rr_remove" /\ pc[t] \in {"save_lock", "save_body", "done"}
            /\ data[t] # NoVal )
          => LET mid == ToString(op[t].message_id)
                 before == seen[t].file.v["reaction_roles"].v[mid].v
             IN /\ op[t].emoji \in DOMAIN before
                /\ DOMAIN before = {op[t].emoji}
                   => mid \notin DOMAIN data[t].v["reaction_roles"].v

\* rr remove has removed the only binding of message 1 and saved: the
\* record has the key reaction_roles and no entry for the message
LastBindingRemoved ==
    \E t \in Tasks :
        /\ Done(t, "rr_remove") /\ seen[t].file = OneBinding
        /\ last[op[t].g] = op[t]
        /\ HasKey(files[op[t].g], "reaction_roles")
        /\ DOMAIN files[op[t].g].v["reaction_roles"].v = {}

IsImageMuted(doc, uid) ==
    /\ uid \in DOMAIN doc.v["image_muted"].v
    /\ doc.v["image_muted"].v[uid] = JBool(TRUE)

\* C30: with the document the handler loaded: imute of a member who has a
\* true entry, and iunmute of a member who has none, return without a save
\* and change no file; otherwise imute saves the document with the member's
\* entry true and iunmute saves it without the member's entry, every other
\* entry and key as loaded, and the file holds that document after the
\* save.  The filter's get returns true exactly when the member's entry in
\* the file is true: true when the guild's last write was an imute of the
\* member, false when it was an iunmute of the member.
ImuteConsistent ==
    /\ [](\A t \in Tasks :
            (op[t].name \in {"imute", "iunmute"} /\ pc[t] \in {"save_lock", "save_body", "done"})
            => LET before == load_file(seen[t].file)
                   uid == op[t].uid
                   refused == IsImageMuted(before, uid) <=> op[t].name = "imute"
               IN IF refused THEN pc[t] = "done" /\ data[t] = NoVal
                  ELSE /\ DOMAIN data[t].v = DOMAIN before.v
                       /\ \A k \in DOMAIN before.v \ {"image_muted"} : data[t].v[k] = before.v[k]
                       /\ \A m \in Members \ {uid} :
                              IsImageMuted(data[t], m) <=> IsImageMuted(before, m)
                       /\ IF op[t].name = "imute" THEN IsImageMuted(data[t], uid)
                          ELSE uid \notin DOMAIN data[t].v["image_muted"].v)
    /\ [](\A t \in Tasks :
            (Done(t, "get") /\ op[t].keys[1] = "image_muted")
            => LET uid == op[t].keys[2]
               IN /\ ret[t] = JBool(IsImageMuted(load_file(seen[t].file), uid))
                  /\ (seen[t].last.name = "imute" /\ seen[t].last.uid = uid)
                     => ret[t] = JBool(TRUE)
                  /\ (seen[t].last.name = "iunmute" /\ seen[t].last.uid = uid)
                     => ret[t] = JBool(FALSE))
    /\ [][ \A t \in Tasks :
             /\ (op[t].name \in {"imute", "iunmute"} /\ pc[t] = "load_body" /\ pc'[t] = "done")
                => files' = files
             /\ (op[t].name \in {"imute", "iunmute"} /\ pc[t] = "save_body" /\ pc'[t] = "done")
                => files'[op[t].g] = data[t] ]_vars

\* member 99 was image-muted, iunmute removed the entry, and the filter of
\* the other task then read false for the member
UnmutedThenFiltered ==
    \E t \in Tasks : \E u \in Tasks \ {t} :
        /\ Done(t, "iunmute") /\ seen[t].file = MutedRecord /\ op[t].uid = "99"
        /\ Done(u, "get") /\ op[u].keys = <<"image_muted", "99">>
        /\ seen[u].last = op[t] /\ ret[u] = JBool(FALSE)

====
